---- MODULE Spec2Model ----
(***************************************************************************)
(* Model of the charge-priority decision procedure of the Garasje          *)
(* charging manager: core/decision_engine.py (DecisionEngine) with the     *)
(* data classes of models/vehicle.py and models/recommendation.py, and of  *)
(* the services around it: the settings route (api/routes/dashboard.py),   *)
(* the websocket ConnectionManager (api/routes/websocket.py), the Tesla    *)
(* service (services/tesla_service.py), and the scheduler with its         *)
(* database (core/scheduler.py, core/database.py).  Each part has its own  *)
(* specification, in which the other parts are at rest.                    *)
(*                                                                         *)
(* Numbers.  battery_percent, charge_threshold and minimum_charge are      *)
(* Python floats.  The model draws them from integer grids (whole          *)
(* percents) and keeps every priority_score as an exact fraction           *)
(* <<numerator, denominator>> in lowest terms with a positive denominator, *)
(* so that "exactly equal" and "strictly higher" mean what they mean for   *)
(* the quotients the code computes.  On these grids the float quotient     *)
(* gap / threshold * 100 orders and equates exactly as the fraction does.  *)
(***************************************************************************)
EXTENDS Integers, Sequences, FiniteSets, TLC

VARIABLES
    charge_threshold,   \* DecisionEngine.charge_threshold
    minimum_charge,     \* DecisionEngine.minimum_charge
    tesla_status,       \* the first VehicleStatus the caller holds
    ioniq_status,       \* the second VehicleStatus, or None when disabled
    ret,                \* the last call on the engine and what it returned
    accepted,           \* history: the threshold last set, and by which call
    prev,               \* history: an earlier decision call, as noted by an observer
    active_connections, \* ConnectionManager.active_connections, a list
    client_state,       \* WebSocket.client_state of every websocket
    bc,                 \* the call of ConnectionManager.broadcast, where it stands
    mock_mode,          \* TeslaFleetService.mock_mode
    access_token,       \* whether TeslaFleetService.access_token is set
    token_expires_at,   \* TeslaFleetService.token_expires_at, or None
    refresh_token,      \* whether TeslaFleetService.refresh_token is set
    lock_queue,         \* _token_refresh_lock: its holder, then the tasks waiting
    tasks,              \* the tasks calling authenticate(), where each stands
    refresh_log,        \* history: the refresh requests made, with their answers
    now,                \* datetime.now(), in seconds
    last_fetch_time,    \* TeslaFleetService.last_fetch_time, or None
    cached_status,      \* TeslaFleetService.cached_status, or None
    status_ret,         \* the last call of get_vehicle_status and what it did
    sched,              \* ChargingScheduler.update_vehicle_data, where it stands
    in_error_handler,   \* Database._in_error_handler
    error_tasks,        \* the detached save_error tasks, not yet finished
    db_ret              \* the last call on the Database that ended, and how

engine_vars == <<charge_threshold, minimum_charge, tesla_status, ioniq_status, ret,
                 accepted, prev>>
ws_vars == <<active_connections, client_state, bc>>
token_vars == <<access_token, token_expires_at, refresh_token>>
auth_vars == <<lock_queue, tasks, refresh_log>>
cache_vars == <<now, last_fetch_time, cached_status, status_ret>>
tesla_vars == <<mock_mode, token_vars, auth_vars, cache_vars>>
db_vars == <<sched, in_error_handler, error_tasks, db_ret>>
service_vars == <<ws_vars, tesla_vars, db_vars>>

\* what an action of one part leaves alone
outside_ws == <<engine_vars, tesla_vars, db_vars>>
outside_tesla == <<engine_vars, ws_vars, db_vars>>

vars == <<engine_vars, service_vars>>

(***************************************************************************)
(* Bounds of the model.                                                    *)
(***************************************************************************)
MaxBatteryStep == 12
MaxThresholdStep == 7

\* battery_percent values: -10, 0, 10, ..., 110 (out-of-range ones included)
BatteryGrid == {10 * k - 10 : k \in 0..MaxBatteryStep}
\* charge_threshold values: -20, 0, 20, ..., 120 (out-of-range ones included)
ThresholdGrid == {20 * k - 20 : k \in 0..MaxThresholdStep}
\* minimum_charge values a caller may construct the engine with
MinimumGrid == {-10, 0, 20, 50}

(***************************************************************************)
(* Exact fractions.                                                        *)
(***************************************************************************)
Abs(x) == IF x < 0 THEN -x ELSE x

RECURSIVE GCD(_, _)
GCD(x, y) == IF y = 0 THEN x ELSE GCD(y, x % y)

\* n / d in lowest terms, d # 0
Frac(n, d) ==
    LET g == GCD(Abs(n), Abs(d))
        s == IF d < 0 THEN -1 ELSE 1
    IN  <<(s * n) \div g, (s * d) \div g>>

Num(n) == <<n, 1>>
Less(p, q) == p[1] * q[2] < q[1] * p[2]
Min(p, q) == IF Less(q, p) THEN q ELSE p

(***************************************************************************)
(* models/recommendation.py and models/vehicle.py                          *)
(***************************************************************************)
CHARGE == "CHARGE"
NO_CHARGE == "NO_CHARGE"
CONTINUE_CHARGING == "CONTINUE_CHARGING"
ChargeAction == {CHARGE, NO_CHARGE, CONTINUE_CHARGING}

\* reason and timestamp carry no decision and are left out
Recommendation(action, battery_percent, threshold, priority_score) ==
    [raised |-> "none", action |-> action, battery_percent |-> battery_percent,
     threshold |-> threshold, priority_score |-> priority_score]

\* an exception leaving a call of the engine
Raise(exc) == [raised |-> exc]

VehicleStatus(vehicle_name, battery_percent, is_charging) ==
    [vehicle_name |-> vehicle_name, battery_percent |-> battery_percent,
     is_charging |-> is_charging]

None == [is_none |-> TRUE]

TeslaName == "Tesla Model Y"
IoniqName == "Hyundai Ioniq 5"

TeslaReadings == {VehicleStatus(TeslaName, b, c) : b \in BatteryGrid, c \in BOOLEAN}
IoniqReadings == {VehicleStatus(IoniqName, b, c) : b \in BatteryGrid, c \in BOOLEAN}

(***************************************************************************)
(* DecisionEngine.calculate_recommendation, rule by rule.  Each operator   *)
(* reads the engine's current charge_threshold and minimum_charge.         *)
(***************************************************************************)

\* variant: a battery exactly at the floor is critical too
is_critical_inclusive(battery) == battery <= minimum_charge

\* Rule 1 guard: critical low battery
is_critical(battery) == battery < minimum_charge

\* variant: priority_score is left at the dataclass default 0.0
critical_recommendation_default_score(battery) ==
    Recommendation(CHARGE, battery, charge_threshold, Num(0))

\* Rule 1 result
critical_recommendation(battery) ==
    Recommendation(CHARGE, battery, charge_threshold, Num(100))

\* variant: a continued charge gets a lower fixed score
charging_recommendation_low(battery) ==
    IF battery < charge_threshold
    THEN Recommendation(CONTINUE_CHARGING, battery, charge_threshold, Num(25))
    ELSE Recommendation(NO_CHARGE, battery, charge_threshold, Num(0))

\* variant: a battery exactly at the threshold keeps charging
charging_recommendation_inclusive(battery) ==
    IF battery <= charge_threshold
    THEN Recommendation(CONTINUE_CHARGING, battery, charge_threshold, Num(50))
    ELSE Recommendation(NO_CHARGE, battery, charge_threshold, Num(0))

\* variant: the score of a continued charge is the gap to the threshold
charging_recommendation_gap(battery) ==
    IF battery < charge_threshold
    THEN Recommendation(CONTINUE_CHARGING, battery, charge_threshold,
                        Num(charge_threshold - battery))
    ELSE Recommendation(NO_CHARGE, battery, charge_threshold, Num(0))

\* Rule 2: already charging - continue if below threshold
charging_recommendation(battery) ==
    IF battery < charge_threshold
    THEN Recommendation(CONTINUE_CHARGING, battery, charge_threshold, Num(50))
    ELSE Recommendation(NO_CHARGE, battery, charge_threshold, Num(0))

\* Rule 3 result: above threshold
above_threshold_recommendation(battery) ==
    Recommendation(NO_CHARGE, battery, charge_threshold, Num(0))

\* variant: the gap is taken with the wrong sign
priority_reversed_gap(battery) ==
    LET gap == battery - charge_threshold
    IN  Min(Frac(gap * 100, charge_threshold), Num(100))

\* variant: the score follows the battery level instead of the gap
priority_level(battery) ==
    Min(Frac(battery * 100, charge_threshold), Num(100))

\* variant: the gap is measured against the usable band
priority_band(battery) ==
    LET gap == charge_threshold - battery
    IN  Min(Frac(gap * 100, charge_threshold - minimum_charge), Num(100))

\* Rule 4 score: min(gap / charge_threshold * 100, 100.0); charge_threshold # 0
priority(battery) ==
    LET gap == charge_threshold - battery
    IN  Min(Frac(gap * 100, charge_threshold), Num(100))

\* Rule 4: below threshold - should charge.  The division raises
\* ZeroDivisionError when charge_threshold is 0.
below_threshold_recommendation(battery) ==
    IF charge_threshold = 0
    THEN Raise("ZeroDivisionError")
    ELSE Recommendation(CHARGE, battery, charge_threshold, priority(battery))

\* variant: the battery is clamped to [0, 100] before the rules
calculate_recommendation_clamped(status) ==
    LET raw == status.battery_percent
        battery == IF raw < 0 THEN 0 ELSE IF raw > 100 THEN 100 ELSE raw
    IN  IF is_critical(battery) THEN critical_recommendation(battery)
        ELSE IF status.is_charging THEN charging_recommendation(battery)
        ELSE IF battery >= charge_threshold THEN above_threshold_recommendation(battery)
        ELSE below_threshold_recommendation(battery)

\* variant: the rule 4 quotient is evaluated before the branch guards
calculate_recommendation_eager(status) ==
    LET battery == status.battery_percent
    IN  IF charge_threshold = 0 THEN Raise("ZeroDivisionError")
        ELSE IF is_critical(battery) THEN critical_recommendation(battery)
        ELSE IF status.is_charging THEN charging_recommendation(battery)
        ELSE IF battery >= charge_threshold THEN above_threshold_recommendation(battery)
        ELSE below_threshold_recommendation(battery)

\* variant: the charge in progress is looked at before the critical floor
calculate_recommendation_charging_first(status) ==
    LET battery == status.battery_percent
    IN  IF status.is_charging THEN charging_recommendation(battery)
        ELSE IF is_critical(battery) THEN critical_recommendation(battery)
        ELSE IF battery >= charge_threshold THEN above_threshold_recommendation(battery)
        ELSE below_threshold_recommendation(battery)

calculate_recommendation(status) ==
    LET battery == status.battery_percent
    IN  IF is_critical(battery) THEN critical_recommendation(battery)
        ELSE IF status.is_charging THEN charging_recommendation(battery)
        ELSE IF battery >= charge_threshold THEN above_threshold_recommendation(battery)
        ELSE below_threshold_recommendation(battery)

(***************************************************************************)
(* DecisionEngine.compare_vehicles                                         *)
(***************************************************************************)
\* variant: only CHARGE counts as needing charge
needs_charging_charge_only(action) == action = CHARGE

\* variant: every action counts as needing charge
needs_charging_every(action) == action \in ChargeAction

needs_charging(action) == action \in {CHARGE, CONTINUE_CHARGING}

Return(name) == [raised |-> "none", name |-> name]

\* variant: the fuller vehicle wins the tie
tiebreaker_higher(vehicle_a, vehicle_b) ==
    IF vehicle_a.battery_percent > vehicle_b.battery_percent
    THEN vehicle_a.vehicle_name
    ELSE vehicle_b.vehicle_name

\* variant: the first vehicle wins when the batteries are equal too
tiebreaker_first(vehicle_a, vehicle_b) ==
    IF vehicle_a.battery_percent <= vehicle_b.battery_percent
    THEN vehicle_a.vehicle_name
    ELSE vehicle_b.vehicle_name

\* equal priority: prefer the one with lower battery, else the second
tiebreaker(vehicle_a, vehicle_b) ==
    IF vehicle_a.battery_percent < vehicle_b.battery_percent
    THEN vehicle_a.vehicle_name
    ELSE vehicle_b.vehicle_name

\* variant: the comparison of the scores is inverted
by_priority_inverted(vehicle_a, vehicle_b, rec_a, rec_b) ==
    IF Less(rec_a.priority_score, rec_b.priority_score) THEN vehicle_a.vehicle_name
    ELSE IF Less(rec_b.priority_score, rec_a.priority_score) THEN vehicle_b.vehicle_name
    ELSE tiebreaker(vehicle_a, vehicle_b)

\* both need charging: the higher priority_score first
by_priority(vehicle_a, vehicle_b, rec_a, rec_b) ==
    IF Less(rec_b.priority_score, rec_a.priority_score) THEN vehicle_a.vehicle_name
    ELSE IF Less(rec_a.priority_score, rec_b.priority_score) THEN vehicle_b.vehicle_name
    ELSE tiebreaker(vehicle_a, vehicle_b)

compare_vehicles(vehicle_a, vehicle_b) ==
    LET rec_a == calculate_recommendation(vehicle_a)
        rec_b == calculate_recommendation(vehicle_b)
    IN  IF rec_a.raised # "none" THEN Raise(rec_a.raised)
        ELSE IF rec_b.raised # "none" THEN Raise(rec_b.raised)
        ELSE IF ~needs_charging(rec_a.action) /\ ~needs_charging(rec_b.action)
             THEN Return("NONE")
        ELSE IF needs_charging(rec_a.action) /\ ~needs_charging(rec_b.action)
             THEN Return(vehicle_a.vehicle_name)
        ELSE IF needs_charging(rec_b.action) /\ ~needs_charging(rec_a.action)
             THEN Return(vehicle_b.vehicle_name)
        ELSE Return(by_priority(vehicle_a, vehicle_b, rec_a, rec_b))

(***************************************************************************)
(* DecisionEngine.calculate_dual_recommendations                           *)
(***************************************************************************)
\* variant: the one-vehicle path uses needs_charging as the two-vehicle path does
single_priority_needs_charging(status, rec) ==
    IF needs_charging(rec.action) THEN status.vehicle_name ELSE "NONE"

\* the one-vehicle path: the first vehicle has priority only on CHARGE
single_priority(status, rec) ==
    IF rec.action = CHARGE THEN status.vehicle_name ELSE "NONE"

\* variant: the priority is asked for with the two vehicles exchanged
calculate_dual_recommendations_swapped(status_a, status_b) ==
    LET tesla_rec == calculate_recommendation(status_a)
    IN  IF tesla_rec.raised # "none" THEN Raise(tesla_rec.raised)
        ELSE IF status_b # None
        THEN LET ioniq_rec == calculate_recommendation(status_b)
                 cmp == compare_vehicles(status_b, status_a)
             IN  IF ioniq_rec.raised # "none" THEN Raise(ioniq_rec.raised)
                 ELSE IF cmp.raised # "none" THEN Raise(cmp.raised)
                 ELSE [raised |-> "none", tesla |-> tesla_rec, ioniq |-> ioniq_rec,
                       priority_vehicle |-> cmp.name]
        ELSE [raised |-> "none", tesla |-> tesla_rec, ioniq |-> None,
              priority_vehicle |-> single_priority(status_a, tesla_rec)]

calculate_dual_recommendations(status_a, status_b) ==
    LET tesla_rec == calculate_recommendation(status_a)
    IN  IF tesla_rec.raised # "none" THEN Raise(tesla_rec.raised)
        ELSE IF status_b # None
        THEN LET ioniq_rec == calculate_recommendation(status_b)
                 cmp == compare_vehicles(status_a, status_b)
             IN  IF ioniq_rec.raised # "none" THEN Raise(ioniq_rec.raised)
                 ELSE IF cmp.raised # "none" THEN Raise(cmp.raised)
                 ELSE [raised |-> "none", tesla |-> tesla_rec, ioniq |-> ioniq_rec,
                       priority_vehicle |-> cmp.name]
        ELSE [raised |-> "none", tesla |-> tesla_rec, ioniq |-> None,
              priority_vehicle |-> single_priority(status_a, tesla_rec)]

(***************************************************************************)
(* The services around the engine, at rest: what their variables hold in   *)
(* a run that is about another part of the application.                    *)
(***************************************************************************)
MaxConnections == 3
Connections == 1..MaxConnections

\* no websocket was ever connected and no broadcast was called
WsIdle ==
    /\ active_connections = <<>>
    /\ client_state = [c \in Connections |-> "NEW"]
    /\ bc = [pc |-> "idle"]

MaxTasks == 3
Tasks == 1..MaxTasks

\* an optional value that is set
Some(v) == [value |-> v]

\* a TeslaFleetService just constructed, with no token file and no caller
TeslaIdle ==
    /\ mock_mode = FALSE
    /\ access_token = FALSE
    /\ token_expires_at = None
    /\ refresh_token = FALSE
    /\ lock_queue = <<>>
    /\ tasks = [t \in Tasks |-> [pc |-> "start", waited |-> FALSE]]
    /\ refresh_log = <<>>
    /\ now = 0
    /\ last_fetch_time = None
    /\ cached_status = None
    /\ status_ret = [op |-> "__init__"]

\* no cycle of the scheduler has run and the database has saved nothing
SchedulerIdle ==
    /\ sched = [pc |-> "idle"]
    /\ in_error_handler = FALSE
    /\ error_tasks = [created |-> 0, saving |-> 0]
    /\ db_ret = [op |-> "__init__"]

ServicesIdle == WsIdle /\ TeslaIdle /\ SchedulerIdle

\* the engine of the application, constructed and not called
EngineIdle ==
    /\ charge_threshold = 80
    /\ minimum_charge = 20
    /\ tesla_status = VehicleStatus(TeslaName, 50, FALSE)
    /\ ioniq_status = None
    /\ ret = [op |-> "__init__"]
    /\ accepted = [value |-> charge_threshold, by |-> "__init__"]
    /\ prev = [op |-> "__init__"]

(***************************************************************************)
(* The state machine: an engine is constructed, the caller holds one or    *)
(* two readings, and calls the engine's methods in any order.              *)
(***************************************************************************)
Init ==
    /\ charge_threshold \in ThresholdGrid
    /\ minimum_charge \in MinimumGrid
    /\ tesla_status \in TeslaReadings
    /\ ioniq_status \in IoniqReadings \cup {None}
    /\ ret = [op |-> "__init__"]
    /\ accepted = [value |-> charge_threshold, by |-> "__init__"]
    /\ prev = [op |-> "__init__"]
    /\ ServicesIdle

\* variant: the new value is stored before it is validated
UpdateThreshold_assign_first(new_threshold) ==
    /\ charge_threshold' = new_threshold
    /\ IF ~(0 <= new_threshold /\ new_threshold <= 100)
       THEN /\ ret' = [op |-> "update_threshold", new_threshold |-> new_threshold,
                       raised |-> "ValueError"]
            /\ UNCHANGED accepted
       ELSE /\ ret' = [op |-> "update_threshold", new_threshold |-> new_threshold,
                       raised |-> "none"]
            /\ accepted' = [value |-> new_threshold, by |-> "update_threshold"]
    /\ UNCHANGED <<minimum_charge, tesla_status, ioniq_status, prev>>
    /\ UNCHANGED service_vars

\* variant: the ends of the range, 0 and 100, are refused as well
UpdateThreshold_exclusive(new_threshold) ==
    /\ IF ~(0 < new_threshold /\ new_threshold < 100)
       THEN /\ ret' = [op |-> "update_threshold", new_threshold |-> new_threshold,
                       raised |-> "ValueError"]
            /\ UNCHANGED <<charge_threshold, accepted>>
       ELSE /\ charge_threshold' = new_threshold
            /\ ret' = [op |-> "update_threshold", new_threshold |-> new_threshold,
                       raised |-> "none"]
            /\ accepted' = [value |-> new_threshold, by |-> "update_threshold"]
    /\ UNCHANGED <<minimum_charge, tesla_status, ioniq_status, prev>>
    /\ UNCHANGED service_vars

\* variant: only the lower end of the range is checked
UpdateThreshold_no_upper(new_threshold) ==
    /\ IF ~(0 <= new_threshold)
       THEN /\ ret' = [op |-> "update_threshold", new_threshold |-> new_threshold,
                       raised |-> "ValueError"]
            /\ UNCHANGED <<charge_threshold, accepted>>
       ELSE /\ charge_threshold' = new_threshold
            /\ ret' = [op |-> "update_threshold", new_threshold |-> new_threshold,
                       raised |-> "none"]
            /\ accepted' = [value |-> new_threshold, by |-> "update_threshold"]
    /\ UNCHANGED <<minimum_charge, tesla_status, ioniq_status, prev>>
    /\ UNCHANGED service_vars

\* DecisionEngine.update_threshold(new_threshold)
UpdateThreshold(new_threshold) ==
    /\ IF ~(0 <= new_threshold /\ new_threshold <= 100)
       THEN /\ ret' = [op |-> "update_threshold", new_threshold |-> new_threshold,
                       raised |-> "ValueError"]
            /\ UNCHANGED <<charge_threshold, accepted>>
       ELSE /\ charge_threshold' = new_threshold
            /\ ret' = [op |-> "update_threshold", new_threshold |-> new_threshold,
                       raised |-> "none"]
            /\ accepted' = [value |-> new_threshold, by |-> "update_threshold"]
    /\ UNCHANGED <<minimum_charge, tesla_status, ioniq_status, prev>>
    /\ UNCHANGED service_vars

(***************************************************************************)
(* api/routes/dashboard.py: PUT /api/settings/threshold.  The request body *)
(* is a ThresholdUpdate; a request value is written in hundredths of a     *)
(* percent (4004 is 40.04) so that the rounding of the validator is seen.  *)
(***************************************************************************)
\* request values: each threshold of the grid, and 0.04 below and above it
RequestGrid == {100 * t + d : t \in ThresholdGrid, d \in {-4, 0, 4}}

\* round(v, 1) of a value in hundredths, as tenths of a percent
round_1(hundredths) == (hundredths + 5) \div 10

\* ThresholdUpdate: Field(ge=0, le=100) is checked first, then the validator
\* rounds to one decimal; a request outside the range is answered 422 by
\* the framework and the handler does not run
ThresholdUpdate(hundredths) ==
    IF ~(0 <= hundredths /\ hundredths <= 10000)
    THEN [valid |-> FALSE]
    ELSE [valid |-> TRUE, threshold |-> round_1(hundredths) \div 10]

\* the status code the handler answers with, from what the engine call raised
threshold_response(raised) ==
    CASE raised = "none" -> 200
      [] raised = "ValueError" -> 400
      [] OTHER -> 500

\* the route update_threshold(update), with the call of the engine it makes
PutThreshold(hundredths) ==
    LET update == ThresholdUpdate(hundredths)
        raised == IF ~(0 <= update.threshold /\ update.threshold <= 100)
                  THEN "ValueError" ELSE "none"
    IN  /\ IF ~update.valid
           THEN /\ ret' = [op |-> "PUT /api/settings/threshold",
                           request |-> hundredths, called |-> FALSE,
                           status_code |-> 422]
                /\ UNCHANGED <<charge_threshold, accepted>>
           ELSE /\ ret' = [op |-> "PUT /api/settings/threshold",
                           request |-> hundredths, called |-> TRUE,
                           new_threshold |-> update.threshold,
                           raised |-> raised,
                           status_code |-> threshold_response(raised)]
                /\ IF raised = "none"
                   THEN /\ charge_threshold' = update.threshold
                        /\ accepted' = [value |-> update.threshold,
                                        by |-> "update_threshold"]
                   ELSE UNCHANGED <<charge_threshold, accepted>>
        /\ UNCHANGED <<minimum_charge, tesla_status, ioniq_status, prev>>
        /\ UNCHANGED service_vars

\* variant: the engine answers from a recommendation it kept for the vehicle
CalculateRecommendation_memo(status) ==
    /\ ret' = [op |-> "calculate_recommendation", status |-> status,
               rec |-> IF prev.op = "calculate_recommendation" /\ prev.status = status
                       THEN prev.rec
                       ELSE calculate_recommendation(status)]
    /\ UNCHANGED <<charge_threshold, minimum_charge, tesla_status, ioniq_status,
                   accepted, prev>>
    /\ UNCHANGED service_vars

\* a call of calculate_recommendation(status)
CalculateRecommendation(status) ==
    /\ ret' = [op |-> "calculate_recommendation", status |-> status,
               rec |-> calculate_recommendation(status)]
    /\ UNCHANGED <<charge_threshold, minimum_charge, tesla_status, ioniq_status,
                   accepted, prev>>
    /\ UNCHANGED service_vars

\* a call of compare_vehicles(vehicle_a, vehicle_b)
CompareVehicles(vehicle_a, vehicle_b) ==
    /\ ret' = [op |-> "compare_vehicles", vehicle_a |-> vehicle_a,
               vehicle_b |-> vehicle_b,
               result |-> compare_vehicles(vehicle_a, vehicle_b)]
    /\ UNCHANGED <<charge_threshold, minimum_charge, tesla_status, ioniq_status,
                   accepted, prev>>
    /\ UNCHANGED service_vars

\* a call of calculate_dual_recommendations(tesla_status, ioniq_status)
CalculateDualRecommendations ==
    /\ ret' = [op |-> "calculate_dual_recommendations",
               recommendations |-> calculate_dual_recommendations(tesla_status, ioniq_status)]
    /\ UNCHANGED <<charge_threshold, minimum_charge, tesla_status, ioniq_status,
                   accepted, prev>>
    /\ UNCHANGED service_vars

Next ==
    \/ \E v \in ThresholdGrid : UpdateThreshold(v)
    \/ CalculateRecommendation(tesla_status)
    \/ ioniq_status # None /\ CalculateRecommendation(ioniq_status)
    \/ ioniq_status # None /\ CompareVehicles(tesla_status, ioniq_status)
    \/ ioniq_status # None /\ CompareVehicles(ioniq_status, tesla_status)
    \/ CalculateDualRecommendations

Spec == Init /\ [][Next]_vars

(***************************************************************************)
(* The same engine with an observer that may note the last decision call   *)
(* (with the threshold it was made under) before the next one overwrites   *)
(* it, so that two calls of one run can be compared.  The readings are     *)
(* drawn from a part of the grids.                                         *)
(***************************************************************************)
HistoryBatteries == {b \in BatteryGrid : b \in {0, 30, 40, 90}}
HistoryMinimums == {m \in MinimumGrid : m \in {0, 20}}

InitHistory ==
    /\ charge_threshold \in ThresholdGrid
    /\ minimum_charge \in HistoryMinimums
    /\ tesla_status \in {r \in TeslaReadings : r.battery_percent \in HistoryBatteries}
    /\ ioniq_status \in {r \in IoniqReadings : r.battery_percent \in HistoryBatteries}
                          \cup {None}
    /\ ret = [op |-> "__init__"]
    /\ accepted = [value |-> charge_threshold, by |-> "__init__"]
    /\ prev = [op |-> "__init__"]
    /\ ServicesIdle

DecisionOps ==
    {"calculate_recommendation", "compare_vehicles", "calculate_dual_recommendations"}

\* the caller keeps what the last decision call returned
Remember ==
    /\ ret.op \in DecisionOps
    /\ prev' = ret @@ [threshold |-> charge_threshold]
    /\ UNCHANGED <<charge_threshold, minimum_charge, tesla_status, ioniq_status,
                   ret, accepted>>
    /\ UNCHANGED service_vars

NextHistory ==
    \/ Next
    \/ Remember

SpecHistory == InitHistory /\ [][NextHistory]_vars

(***************************************************************************)
(* The engine as the application constructs it when nothing is configured: *)
(* DecisionEngine() with the defaults of __init__.                         *)
(***************************************************************************)
DefaultChargeThreshold == 80
DefaultMinimumCharge == 20

InitDefault ==
    /\ charge_threshold = DefaultChargeThreshold
    /\ minimum_charge = DefaultMinimumCharge
    /\ tesla_status \in TeslaReadings
    /\ ioniq_status \in IoniqReadings \cup {None}
    /\ ret = [op |-> "__init__"]
    /\ accepted = [value |-> charge_threshold, by |-> "__init__"]
    /\ prev = [op |-> "__init__"]
    /\ ServicesIdle

SpecDefault == InitDefault /\ [][Next]_vars

(***************************************************************************)
(* The engine behind the settings route: the threshold is changed by calls *)
(* of update_threshold and by requests to PUT /api/settings/threshold,     *)
(* and the Tesla's recommendation is read in between.                      *)
(***************************************************************************)
NextSettings ==
    \/ \E v \in ThresholdGrid : UpdateThreshold(v)
    \/ \E h \in RequestGrid : PutThreshold(h)
    \/ CalculateRecommendation(tesla_status)

SpecSettings == InitHistory /\ [][NextSettings]_vars

(***************************************************************************)
(* api/routes/websocket.py: ConnectionManager.  A websocket is a number;   *)
(* active_connections is the list the manager keeps.  A coroutine runs     *)
(* without interruption from one await that suspends it to the next, so    *)
(* an action is the code between two such awaits: broadcast can be         *)
(* suspended in send_json and in close (inside disconnect), and nowhere    *)
(* else.                                                                   *)
(***************************************************************************)
CONNECTED == "CONNECTED"
DISCONNECTED == "DISCONNECTED"

\* how an awaited send_json ends: it returns, or it raises
SendOutcomes == {"sent", "WebSocketDisconnect", "RuntimeError"}
\* how an awaited close ends
CloseOutcomes == {"closed", "RuntimeError"}

\* 'except WebSocketDisconnect' and 'except Exception' of broadcast, and
\* 'except Exception' of disconnect: every exception a send or close raises
\* is an Exception and is caught
caught(exc) == exc \in {"WebSocketDisconnect", "RuntimeError"}

Range(list) == {list[k] : k \in DOMAIN list}

\* list.remove(x): the first occurrence of x goes, the rest moves up
remove(list, x) ==
    LET k == CHOOSE k \in DOMAIN list :
                 list[k] = x /\ \A n \in 1..(k - 1) : list[n] # x
    IN  SubSeq(list, 1, k - 1) \o SubSeq(list, k + 1, Len(list))

\* 'for connection in self.active_connections' from the iterator's position
\* b.i, over the list as it is now, up to the next send_json or the end of
\* the list: a connection that is not CONNECTED is noted and passed over
RECURSIVE for_loop(_, _)
for_loop(b, list) ==
    IF b.i >= Len(list)
    THEN [b EXCEPT !.pc = "clean_up"]
    ELSE LET connection == list[b.i + 1]
             b1 == [b EXCEPT !.i = @ + 1]
         IN  IF client_state[connection] = CONNECTED
             THEN [b1 EXCEPT !.pc = "send_json", !.connection = connection,
                             !.attempted = Append(@, connection)]
             ELSE for_loop([b1 EXCEPT !.disconnected = Append(@, connection)], list)

\* 'for connection in disconnected: await self.disconnect(connection)' from
\* position b.j up to the next close or the end: disconnect removes the
\* connection if it is listed and closes it unless it is DISCONNECTED
RECURSIVE clean_up(_, _)
clean_up(b, list) ==
    IF b.j >= Len(b.disconnected)
    THEN [bc |-> [b EXCEPT !.pc = "done"], active_connections |-> list]
    ELSE LET connection == b.disconnected[b.j + 1]
             b1 == [b EXCEPT !.j = @ + 1]
         IN  IF connection \in Range(list)
             THEN IF client_state[connection] # DISCONNECTED
                  THEN [bc |-> [b1 EXCEPT !.pc = "close", !.connection = connection],
                        active_connections |-> remove(list, connection)]
                  ELSE clean_up(b1, remove(list, connection))
             ELSE clean_up(b1, list)

\* broadcast from where it stands up to its next suspension or its return
run_broadcast(b, list) ==
    LET b1 == IF b.pc = "for" THEN for_loop(b, list) ELSE b
    IN  IF b1.pc = "clean_up"
        THEN clean_up(b1, list)
        ELSE [bc |-> b1, active_connections |-> list]

Returned == bc.pc \in {"idle", "done"}

\* a call of broadcast(message); at_call, attempted, sent, stayed and
\* own_removed are history: the list at the call, the connections send_json
\* was called on, those it returned for, the connections that were listed
\* and CONNECTED at the call and have not been removed since, and whether
\* a connection was removed while broadcast was sending to that very one
Broadcast ==
    /\ Returned
    /\ LET b == [pc |-> "for", i |-> 0, j |-> 0, connection |-> 0,
                 disconnected |-> <<>>, raised |-> "none",
                 at_call |-> active_connections, attempted |-> <<>>,
                 sent |-> <<>>, own_removed |-> FALSE,
                 stayed |-> {c \in Range(active_connections) :
                                client_state[c] = CONNECTED}]
           r == IF active_connections = <<>>
                THEN [bc |-> [b EXCEPT !.pc = "done"], active_connections |-> <<>>]
                ELSE run_broadcast(b, active_connections)
       IN  /\ bc' = r.bc
           /\ active_connections' = r.active_connections
    /\ UNCHANGED client_state
    /\ UNCHANGED outside_ws

\* variant: the first failed send ends the loop
SendJsonReturns_abort(outcome) ==
    /\ bc.pc = "send_json"
    /\ LET b == IF outcome = "sent"
                THEN [bc EXCEPT !.pc = "for", !.sent = Append(@, bc.connection)]
                ELSE [bc EXCEPT !.pc = "clean_up",
                                !.disconnected = Append(@, bc.connection)]
           r == run_broadcast(b, active_connections)
       IN  /\ bc' = r.bc
           /\ active_connections' = r.active_connections
    /\ UNCHANGED client_state
    /\ UNCHANGED outside_ws

\* the awaited send_json ends and broadcast runs on
SendJsonReturns(outcome) ==
    /\ bc.pc = "send_json"
    /\ LET b == IF outcome = "sent"
                THEN [bc EXCEPT !.pc = "for", !.sent = Append(@, bc.connection)]
                ELSE IF caught(outcome)
                THEN [bc EXCEPT !.pc = "for",
                                !.disconnected = Append(@, bc.connection)]
                ELSE [bc EXCEPT !.pc = "done", !.raised = outcome]
           r == run_broadcast(b, active_connections)
       IN  /\ bc' = r.bc
           /\ active_connections' = r.active_connections
    /\ UNCHANGED client_state
    /\ UNCHANGED outside_ws

\* the awaited close inside disconnect ends and the clean-up runs on
CloseReturns(outcome) ==
    /\ bc.pc = "close"
    /\ LET b == IF outcome = "closed" \/ caught(outcome)
                THEN [bc EXCEPT !.pc = "clean_up"]
                ELSE [bc EXCEPT !.pc = "done", !.raised = outcome]
           r == run_broadcast(b, active_connections)
       IN  /\ bc' = r.bc
           /\ active_connections' = r.active_connections
    /\ UNCHANGED client_state
    /\ UNCHANGED outside_ws

\* once the caller has gone on, the finished call is no longer looked at
after_return(b) == IF b.pc = "done" THEN [pc |-> "idle"] ELSE b

\* connect(websocket): a new websocket is accepted and appended
Connect(c) ==
    /\ client_state[c] = "NEW"
    /\ client_state' = [client_state EXCEPT ![c] = CONNECTED]
    /\ active_connections' = Append(active_connections, c)
    /\ bc' = after_return(bc)
    /\ UNCHANGED outside_ws

\* websocket_endpoint: receive_text meets the client's disconnect (it sets
\* client_state), raises WebSocketDisconnect, and the handler calls
\* disconnect(websocket), which removes it and has nothing to close
EndpointDisconnect(c) ==
    /\ c \in Range(active_connections)
    /\ client_state[c] = CONNECTED
    /\ client_state' = [client_state EXCEPT ![c] = DISCONNECTED]
    /\ active_connections' = remove(active_connections, c)
    /\ bc' = IF Returned THEN after_return(bc)
                         ELSE [bc EXCEPT !.stayed = @ \ {c},
                                         !.own_removed = @ \/ c = bc.connection]
    /\ UNCHANGED outside_ws

\* the manager holds some websockets, each CONNECTED or not
InitBroadcast ==
    /\ EngineIdle
    /\ \E k \in 0..MaxConnections :
          /\ active_connections = [n \in 1..k |-> n]
          /\ client_state \in [Connections -> {"NEW", CONNECTED, DISCONNECTED}]
          /\ \A c \in Connections : client_state[c] = "NEW" <=> c > k
    /\ bc = [pc |-> "idle"]
    /\ TeslaIdle
    /\ SchedulerIdle

\* broadcast with nothing else running between its call and its return
NextBroadcast ==
    \/ Broadcast
    \/ \E outcome \in SendOutcomes : SendJsonReturns(outcome)
    \/ \E outcome \in CloseOutcomes : CloseReturns(outcome)
    \/ Returned /\ \E c \in Connections : Connect(c)
    \/ Returned /\ \E c \in Connections : EndpointDisconnect(c)

SpecBroadcast == InitBroadcast /\ [][NextBroadcast]_vars

\* broadcast with connects and disconnects of other tasks while it is
\* suspended
NextInterleaved ==
    \/ Broadcast
    \/ \E outcome \in SendOutcomes : SendJsonReturns(outcome)
    \/ \E outcome \in CloseOutcomes : CloseReturns(outcome)
    \/ \E c \in Connections : Connect(c)
    \/ \E c \in Connections : EndpointDisconnect(c)

SpecInterleaved == InitBroadcast /\ [][NextInterleaved]_vars

(***************************************************************************)
(* services/tesla_service.py: TeslaFleetService.authenticate.  Tasks call  *)
(* authenticate() in a burst during which the clock stands still.  A task  *)
(* is suspended where it waits for _token_refresh_lock and where it awaits *)
(* the token request of _refresh_access_token.  The lock is held by the    *)
(* head of lock_queue; asyncio.Lock hands it on in the order of arrival    *)
(* and lets no newcomer pass a waiting task.                               *)
(***************************************************************************)
cache_duration_seconds == 300
default_expires_in == 3600

\* _is_token_valid, with its 60 second buffer
is_token_valid ==
    /\ access_token
    /\ token_expires_at # None
    /\ now < token_expires_at.value - 60

\* answers to the token request: 200 with or without 'expires_in', a
\* refusal, and no answer at all (status 0: the request raised)
ExpiresIn == {<<>>, <<60>>, <<360>>}
TokenResponses ==
    {[status_code |-> 200, expires_in |-> e] : e \in ExpiresIn}
        \cup {[status_code |-> 401, expires_in |-> <<>>],
              [status_code |-> 0, expires_in |-> <<>>]}

\* token_data.get('expires_in', 3600)
expires_in(response) ==
    IF response.expires_in = <<>> THEN default_expires_in ELSE response.expires_in[1]

\* whether _refresh_access_token raises on this answer
refresh_raises(response) == response.status_code # 200

\* the token fields after _refresh_access_token got this answer
TokenRefreshed(response) ==
    /\ access_token' = TRUE
    /\ token_expires_at' = Some(now + expires_in(response))
    /\ UNCHANGED refresh_token

\* leaving 'async with': the lock goes to the next task in the queue
release(queue) == Tail(queue)

\* variant: no second look at the token once the lock is held
InsideLock_no_recheck(t, queue) ==
    /\ tasks' = [tasks EXCEPT ![t].pc = "post"]
    /\ lock_queue' = queue
    /\ refresh_log' = Append(refresh_log, [by |-> t, answered |-> FALSE])

\* the body of 'async with self._token_refresh_lock' up to its first await,
\* run by task t holding the lock as head of queue: the double check, then
\* the token request goes out
InsideLock(t, queue) ==
    IF is_token_valid
    THEN /\ tasks' = [tasks EXCEPT ![t].pc = "returned"]
         /\ lock_queue' = release(queue)
         /\ UNCHANGED refresh_log
    ELSE /\ tasks' = [tasks EXCEPT ![t].pc = "post"]
         /\ lock_queue' = queue
         /\ refresh_log' = Append(refresh_log, [by |-> t, answered |-> FALSE])

\* task t calls authenticate() and runs to its first suspension or its end
Authenticate(t) ==
    /\ tasks[t].pc = "start"
    /\ IF mock_mode \/ is_token_valid
       THEN /\ tasks' = [tasks EXCEPT ![t].pc = "returned"]
            /\ UNCHANGED <<lock_queue, refresh_log>>
       ELSE IF refresh_token
       THEN IF lock_queue = <<>>
            THEN InsideLock(t, <<t>>)
            ELSE /\ tasks' = [tasks EXCEPT ![t] = [pc |-> "acquire", waited |-> TRUE]]
                 /\ lock_queue' = Append(lock_queue, t)
                 /\ UNCHANGED refresh_log
       ELSE /\ tasks' = [tasks EXCEPT ![t].pc = "raised"]
            /\ UNCHANGED <<lock_queue, refresh_log>>
    /\ UNCHANGED <<mock_mode, token_vars, cache_vars>>
    /\ UNCHANGED outside_tesla

\* the lock has come to the waiting task t
LockAcquired(t) ==
    /\ tasks[t].pc = "acquire"
    /\ lock_queue # <<>>
    /\ Head(lock_queue) = t
    /\ InsideLock(t, lock_queue)
    /\ UNCHANGED <<mock_mode, token_vars, cache_vars>>
    /\ UNCHANGED outside_tesla

\* the token request of task t is answered: _refresh_access_token stores
\* the token and authenticate returns, or it raises, authenticate logs that
\* and raises TeslaAuthenticationError; the lock is released either way
PostReturns(t, response) ==
    /\ tasks[t].pc = "post"
    /\ refresh_log' = [refresh_log EXCEPT ![Len(refresh_log)] =
                          [by |-> t, answered |-> TRUE, response |-> response,
                           valid_for |-> IF refresh_raises(response) THEN 0
                                         ELSE expires_in(response) - 60]]
    /\ IF refresh_raises(response)
       THEN /\ tasks' = [tasks EXCEPT ![t].pc = "raised"]
            /\ UNCHANGED token_vars
       ELSE /\ tasks' = [tasks EXCEPT ![t].pc = "returned"]
            /\ TokenRefreshed(response)
    /\ lock_queue' = release(lock_queue)
    /\ UNCHANGED <<mock_mode, cache_vars>>
    /\ UNCHANGED outside_tesla

\* the token file as _load_tokens found it: no token, an expired one or a
\* valid one, with or without a refresh token
InitAuth ==
    /\ EngineIdle
    /\ WsIdle
    /\ SchedulerIdle
    /\ mock_mode \in BOOLEAN
    /\ \E token \in {<<FALSE, None>>, <<TRUE, Some(0)>>, <<TRUE, Some(3600)>>} :
          /\ access_token = token[1]
          /\ token_expires_at = token[2]
    /\ refresh_token \in BOOLEAN
    /\ lock_queue = <<>>
    /\ tasks = [t \in Tasks |-> [pc |-> "start", waited |-> FALSE]]
    /\ refresh_log = <<>>
    /\ now = 0
    /\ last_fetch_time = None
    /\ cached_status = None
    /\ status_ret = [op |-> "__init__"]

NextAuth ==
    \/ \E t \in Tasks : Authenticate(t)
    \/ \E t \in Tasks : LockAcquired(t)
    \/ \E t \in Tasks : \E response \in TokenResponses : PostReturns(t, response)

SpecAuth == InitAuth /\ [][NextAuth]_vars

(***************************************************************************)
(* services/tesla_service.py: TeslaFleetService.get_vehicle_status, called *)
(* by one task at a time while the clock moves on in steps of 150 seconds. *)
(* A VehicleStatus is kept by the time it was built (last_updated) and by  *)
(* whether it is mock data.                                                *)
(***************************************************************************)
MaxClockStep == 4

\* the VehicleStatus _fetch_from_api builds from a 200 answer
FetchedStatus == [raised |-> "none", last_updated |-> now, is_mock |-> FALSE]
\* the VehicleStatus _get_mock_data builds
MockStatus == [raised |-> "none", last_updated |-> now, is_mock |-> TRUE]

\* _is_cache_valid
is_cache_valid ==
    /\ cached_status # None
    /\ last_fetch_time # None
    /\ now - last_fetch_time.value < cache_duration_seconds

\* answers to the vehicle_data request: data, asleep, an error of the API,
\* and no answer at all (0: the request raised)
FetchResponses == {200, 408, 500, 0}

\* whether authenticate(), called by a lone task, sends a token request
auth_requests == ~mock_mode /\ ~is_token_valid /\ refresh_token

\* whether authenticate(), called by a lone task, raises
auth_raises(token_response) ==
    /\ ~mock_mode
    /\ ~is_token_valid
    /\ ~refresh_token \/ refresh_raises(token_response)

\* what _fetch_from_api returns or raises on this answer
fetch_from_api(response) ==
    IF response = 408
    THEN IF cached_status # None THEN cached_status ELSE Raise("TeslaAPIError")
    ELSE IF response # 200
    THEN Raise("TeslaAPIError")
    ELSE FetchedStatus

\* variant: a failure is always passed on to the caller
stale_or_raise_always == Raise("TeslaAPIError")

\* the except branch of get_vehicle_status
stale_or_raise ==
    IF cached_status # None THEN cached_status ELSE Raise("TeslaAPIError")

\* a call of get_vehicle_status(), given the answers the two requests would
\* get.  status_ret notes, besides the result: the time of the call,
\* whether authenticate was called, whether the cache was looked at,
\* whether a request was sent at all, whether the vehicle_data request was
\* sent and its answer, and whether the try block was left by an exception
GetVehicleStatus(token_response, fetch_response) ==
    LET call == [op |-> "get_vehicle_status", at |-> now,
                 authenticated |-> FALSE, cache_read |-> FALSE,
                 contacted |-> FALSE, fetched |-> FALSE, answer |-> -1,
                 failed |-> FALSE, result |-> None]
    IN  /\ IF mock_mode
           THEN /\ status_ret' = [call EXCEPT !.result = MockStatus]
                /\ UNCHANGED <<token_vars, last_fetch_time, cached_status>>
           ELSE IF is_cache_valid
           THEN /\ status_ret' = [call EXCEPT !.cache_read = TRUE,
                                              !.result = cached_status]
                /\ UNCHANGED <<token_vars, last_fetch_time, cached_status>>
           ELSE IF auth_raises(token_response)
           THEN /\ status_ret' = [call EXCEPT !.cache_read = TRUE,
                                              !.authenticated = TRUE,
                                              !.contacted = auth_requests,
                                              !.failed = TRUE,
                                              !.result = stale_or_raise]
                /\ UNCHANGED <<token_vars, last_fetch_time, cached_status>>
           ELSE LET status == fetch_from_api(fetch_response)
                    fetch == [call EXCEPT !.cache_read = TRUE,
                                          !.authenticated = TRUE,
                                          !.contacted = TRUE,
                                          !.fetched = TRUE,
                                          !.answer = fetch_response]
                IN  /\ IF auth_requests
                       THEN TokenRefreshed(token_response)
                       ELSE UNCHANGED token_vars
                    /\ IF status.raised # "none"
                       THEN /\ status_ret' = [fetch EXCEPT !.failed = TRUE,
                                                           !.result = stale_or_raise]
                            /\ UNCHANGED <<last_fetch_time, cached_status>>
                       ELSE /\ status_ret' = [fetch EXCEPT !.result = status]
                            /\ last_fetch_time' = Some(now)
                            /\ cached_status' = status
        /\ UNCHANGED <<mock_mode, auth_vars, now>>
        /\ UNCHANGED outside_tesla

\* time passes
Tick ==
    /\ now < 150 * MaxClockStep
    /\ now' = now + 150
    /\ UNCHANGED <<mock_mode, token_vars, auth_vars, last_fetch_time,
                   cached_status, status_ret>>
    /\ UNCHANGED outside_tesla

InitStatus ==
    /\ EngineIdle
    /\ WsIdle
    /\ SchedulerIdle
    /\ mock_mode \in BOOLEAN
    /\ \E token \in {<<FALSE, None>>, <<TRUE, Some(0)>>, <<TRUE, Some(3600)>>} :
          /\ access_token = token[1]
          /\ token_expires_at = token[2]
    /\ refresh_token \in BOOLEAN
    /\ lock_queue = <<>>
    /\ tasks = [t \in Tasks |-> [pc |-> "start", waited |-> FALSE]]
    /\ refresh_log = <<>>
    /\ now = 0
    /\ last_fetch_time = None
    /\ cached_status = None
    /\ status_ret = [op |-> "__init__"]

NextStatus ==
    \/ \E token_response \in TokenResponses : \E fetch_response \in FetchResponses :
          GetVehicleStatus(token_response, fetch_response)
    \/ Tick

SpecStatus == InitStatus /\ [][NextStatus]_vars

(***************************************************************************)
(* core/scheduler.py: ChargingScheduler.update_vehicle_data, with the      *)
(* Database of core/database.py it saves to.  The scheduler is given its   *)
(* collaborators: the Tesla service answers a cycle with a status or with  *)
(* TeslaAPIError, the broadcast function returns or raises, and the engine *)
(* is the one modelled above.  A detached save_error task runs between the *)
(* steps of the cycle; a save_error is suspended while its session commits *)
(* and _in_error_handler is set.                                           *)
(***************************************************************************)
MaxCycles == 2

\* the statuses the Tesla service hands the scheduler
SchedulerReadings == {VehicleStatus(TeslaName, b, c) : b \in {-10, 50}, c \in BOOLEAN}
\* how a session of the database ends: committed, or an exception
SessionOutcomes == {"committed", "SQLAlchemyError"}
\* how the broadcast function ends
BroadcastOutcomes == {"sent", "RuntimeError"}

\* 'except Exception': what the handlers of the scheduler and the database catch
is_exception(exc) ==
    exc \in {"TeslaAPIError", "ZeroDivisionError", "SQLAlchemyError", "RuntimeError"}

\* the steps of a cycle, in the order of the try block
CycleSteps ==
    <<"get_vehicle_status", "save_battery_reading", "calculate_recommendation",
      "save_recommendation", "websocket_broadcast">>

\* update_vehicle_data has returned (or, propagated # "none", was left by
\* an exception)
finished(cycle) == [cycle EXCEPT !.pc = "idle", !.done = TRUE]

\* an exception inside the try block: caught, it leads to the handler
raise_in_cycle(cycle, exc) ==
    IF is_exception(exc)
    THEN [cycle EXCEPT !.pc = "except", !.exc = exc]
    ELSE finished([cycle EXCEPT !.exc = exc, !.propagated = exc])

\* a call of update_vehicle_data() up to the end of get_vehicle_status
UpdateVehicleData(outcome) ==
    /\ sched.pc = "idle"
    /\ sched.n < MaxCycles
    /\ LET cycle == [sched EXCEPT
                        !.n = @ + 1, !.steps = <<"get_vehicle_status">>,
                        !.exc = "none", !.propagated = "none", !.done = FALSE,
                        !.reading_saved = FALSE, !.recommendation_saved = FALSE,
                        !.broadcast = FALSE, !.save_error_calls = 0,
                        !.before = IF sched.n = 0 THEN "none"
                                   ELSE IF sched.exc = "none" THEN "completed"
                                   ELSE "failed"]
       IN  IF outcome \in SchedulerReadings
           THEN /\ tesla_status' = outcome
                /\ sched' = [cycle EXCEPT !.pc = "save_battery_reading"]
           ELSE /\ UNCHANGED tesla_status
                /\ sched' = raise_in_cycle(cycle, outcome.raised)
    /\ UNCHANGED <<charge_threshold, minimum_charge, ioniq_status, ret, accepted, prev>>
    /\ UNCHANGED <<in_error_handler, error_tasks, db_ret>>
    /\ UNCHANGED <<ws_vars, tesla_vars>>

\* what save_battery_reading and save_recommendation do with the end of
\* their session: a failure is logged and, unless _in_error_handler is set,
\* a save_error task is created; nothing is raised
Saved(op, outcome) ==
    LET failed == outcome # "committed"
        detach == failed /\ ~in_error_handler
    IN  /\ db_ret' = [op |-> op, persisted |-> ~failed,
                      raised |-> IF failed /\ ~is_exception(outcome)
                                 THEN outcome ELSE "none",
                      flag_seen |-> in_error_handler, task_created |-> detach]
        /\ error_tasks' = IF detach
                          THEN [error_tasks EXCEPT !.created = @ + 1]
                          ELSE error_tasks

\* variant: a failure to save the reading is passed on to the scheduler
SaveBatteryReading_propagates(outcome) ==
    /\ sched.pc = "save_battery_reading"
    /\ db_ret' = [op |-> "save_battery_reading", persisted |-> outcome = "committed",
                  raised |-> IF outcome = "committed" THEN "none" ELSE outcome,
                  flag_seen |-> in_error_handler, task_created |-> FALSE]
    /\ LET cycle == [sched EXCEPT !.steps = Append(@, "save_battery_reading"),
                                  !.reading_saved = outcome = "committed"]
       IN  sched' = IF outcome = "committed"
                    THEN [cycle EXCEPT !.pc = "calculate_recommendation"]
                    ELSE raise_in_cycle(cycle, outcome)
    /\ UNCHANGED <<in_error_handler, error_tasks>>
    /\ UNCHANGED <<engine_vars, ws_vars, tesla_vars>>

\* database.save_battery_reading(tesla_status) ends
SaveBatteryReading(outcome) ==
    /\ sched.pc = "save_battery_reading"
    /\ Saved("save_battery_reading", outcome)
    /\ sched' = [sched EXCEPT !.pc = "calculate_recommendation",
                              !.steps = Append(@, "save_battery_reading"),
                              !.reading_saved = outcome = "committed"]
    /\ UNCHANGED in_error_handler
    /\ UNCHANGED <<engine_vars, ws_vars, tesla_vars>>

\* decision_engine.calculate_recommendation(tesla_status)
CalculateForScheduler ==
    /\ sched.pc = "calculate_recommendation"
    /\ LET rec == calculate_recommendation(tesla_status)
           cycle == [sched EXCEPT !.steps = Append(@, "calculate_recommendation")]
       IN  /\ ret' = [op |-> "calculate_recommendation", status |-> tesla_status,
                      rec |-> rec]
           /\ sched' = IF rec.raised # "none"
                       THEN raise_in_cycle(cycle, rec.raised)
                       ELSE [cycle EXCEPT !.pc = "save_recommendation"]
    /\ UNCHANGED <<charge_threshold, minimum_charge, tesla_status, ioniq_status,
                   accepted, prev>>
    /\ UNCHANGED <<in_error_handler, error_tasks, db_ret>>
    /\ UNCHANGED <<ws_vars, tesla_vars>>

\* database.save_recommendation(recommendation, vehicle_name) ends; without
\* a broadcast function the cycle is complete
SaveRecommendation(outcome) ==
    /\ sched.pc = "save_recommendation"
    /\ Saved("save_recommendation", outcome)
    /\ LET cycle == [sched EXCEPT !.steps = Append(@, "save_recommendation"),
                                  !.recommendation_saved = outcome = "committed"]
       IN  sched' = IF sched.websocket_broadcast
                    THEN [cycle EXCEPT !.pc = "websocket_broadcast"]
                    ELSE finished(cycle)
    /\ UNCHANGED in_error_handler
    /\ UNCHANGED <<engine_vars, ws_vars, tesla_vars>>

\* the awaited websocket_broadcast(...) ends
BroadcastUpdate(outcome) ==
    /\ sched.pc = "websocket_broadcast"
    /\ LET cycle == [sched EXCEPT !.steps = Append(@, "websocket_broadcast"),
                                  !.broadcast = outcome = "sent"]
       IN  sched' = IF outcome = "sent"
                    THEN finished(cycle)
                    ELSE raise_in_cycle(cycle, outcome)
    /\ UNCHANGED <<in_error_handler, error_tasks, db_ret>>
    /\ UNCHANGED <<engine_vars, ws_vars, tesla_vars>>

\* save_error is called and returns at once: an error save is in progress
skipped_save_error ==
    [op |-> "save_error", skipped |-> TRUE, persisted |-> FALSE,
     raised |-> "none", flag_after |-> in_error_handler']

\* save_error ends after its session: whatever the session raised is
\* caught, and the finally clause has reset the flag
ended_save_error(outcome) ==
    [op |-> "save_error", skipped |-> FALSE, persisted |-> outcome = "committed",
     raised |-> IF outcome # "committed" /\ ~is_exception(outcome)
                THEN outcome ELSE "none",
     flag_after |-> in_error_handler']

\* the handler of the cycle calls database.save_error("scheduler", ...)
SchedulerSaveError ==
    /\ sched.pc = "except"
    /\ LET cycle == [sched EXCEPT !.save_error_calls = @ + 1]
       IN  IF in_error_handler
           THEN /\ UNCHANGED in_error_handler
                /\ db_ret' = skipped_save_error
                /\ sched' = finished(cycle)
           ELSE /\ in_error_handler' = TRUE
                /\ UNCHANGED db_ret
                /\ sched' = [cycle EXCEPT !.pc = "save_error"]
    /\ UNCHANGED error_tasks
    /\ UNCHANGED <<engine_vars, ws_vars, tesla_vars>>

\* variant: the handler raises the exception again after saving it
SchedulerSaveErrorReturns_reraise(outcome) ==
    /\ sched.pc = "save_error"
    /\ in_error_handler' = FALSE
    /\ db_ret' = ended_save_error(outcome)
    /\ sched' = finished([sched EXCEPT !.propagated = sched.exc])
    /\ UNCHANGED error_tasks
    /\ UNCHANGED <<engine_vars, ws_vars, tesla_vars>>

\* the save_error of the handler ends, and with it update_vehicle_data
SchedulerSaveErrorReturns(outcome) ==
    /\ sched.pc = "save_error"
    /\ in_error_handler' = FALSE
    /\ db_ret' = ended_save_error(outcome)
    /\ sched' = finished(sched)
    /\ UNCHANGED error_tasks
    /\ UNCHANGED <<engine_vars, ws_vars, tesla_vars>>

\* update_vehicle_data is suspended, or not running: from the end of
\* save_battery_reading it runs on through calculate_recommendation, which
\* awaits nothing, and from an exception it runs on into save_error
SchedulerSuspended == sched.pc \notin {"calculate_recommendation", "except"}

\* a detached save_error task starts to run
TaskSaveError ==
    /\ SchedulerSuspended
    /\ error_tasks.created > 0
    /\ IF in_error_handler
       THEN /\ UNCHANGED in_error_handler
            /\ db_ret' = skipped_save_error
            /\ error_tasks' = [error_tasks EXCEPT !.created = @ - 1]
       ELSE /\ in_error_handler' = TRUE
            /\ UNCHANGED db_ret
            /\ error_tasks' = [error_tasks EXCEPT !.created = @ - 1,
                                                  !.saving = @ + 1]
    /\ UNCHANGED sched
    /\ UNCHANGED <<engine_vars, ws_vars, tesla_vars>>

\* the save_error of a detached task ends
TaskSaveErrorReturns(outcome) ==
    /\ SchedulerSuspended
    /\ error_tasks.saving > 0
    /\ in_error_handler' = FALSE
    /\ db_ret' = ended_save_error(outcome)
    /\ error_tasks' = [error_tasks EXCEPT !.saving = @ - 1]
    /\ UNCHANGED sched
    /\ UNCHANGED <<engine_vars, ws_vars, tesla_vars>>

\* the scheduler over the default engine or over one whose threshold is 0,
\* with or without a broadcast function
InitScheduler ==
    /\ \E config \in {<<80, 20>>, <<0, -10>>} :
          /\ charge_threshold = config[1]
          /\ minimum_charge = config[2]
    /\ tesla_status = VehicleStatus(TeslaName, 50, FALSE)
    /\ ioniq_status = None
    /\ ret = [op |-> "__init__"]
    /\ accepted = [value |-> charge_threshold, by |-> "__init__"]
    /\ prev = [op |-> "__init__"]
    /\ WsIdle
    /\ TeslaIdle
    /\ \E websocket_broadcast \in BOOLEAN :
          sched = [pc |-> "idle", websocket_broadcast |-> websocket_broadcast,
                   n |-> 0, steps |-> <<>>, exc |-> "none", propagated |-> "none",
                   done |-> FALSE, reading_saved |-> FALSE,
                   recommendation_saved |-> FALSE, broadcast |-> FALSE,
                   save_error_calls |-> 0, before |-> "none"]
    /\ in_error_handler = FALSE
    /\ error_tasks = [created |-> 0, saving |-> 0]
    /\ db_ret = [op |-> "__init__"]

NextScheduler ==
    \/ \E outcome \in SchedulerReadings \cup {Raise("TeslaAPIError")} :
          UpdateVehicleData(outcome)
    \/ \E outcome \in SessionOutcomes : SaveBatteryReading(outcome)
    \/ CalculateForScheduler
    \/ \E outcome \in SessionOutcomes : SaveRecommendation(outcome)
    \/ \E outcome \in BroadcastOutcomes : BroadcastUpdate(outcome)
    \/ SchedulerSaveError
    \/ \E outcome \in SessionOutcomes : SchedulerSaveErrorReturns(outcome)
    \/ TaskSaveError
    \/ \E outcome \in SessionOutcomes : TaskSaveErrorReturns(outcome)

SpecScheduler == InitScheduler /\ [][NextScheduler]_vars

(***************************************************************************)
(* Properties.  Each is stated over ret, the record of the last call.      *)
(***************************************************************************)
IsCalc == ret.op = "calculate_recommendation"
IsCompare == ret.op = "compare_vehicles"
IsDual == ret.op = "calculate_dual_recommendations"

ValidConfig ==
    /\ 0 <= minimum_charge
    /\ minimum_charge <= charge_threshold
    /\ charge_threshold <= 100

\* C1: a reading below minimum_charge gets CHARGE with priority_score 100
\* under every configuration, charging or not: the critical floor is
\* looked at before every other rule.
C1_CriticalFloor ==
    (IsCalc /\ ret.status.battery_percent < minimum_charge)
        => /\ ret.rec.raised = "none"
           /\ ret.rec.action = CHARGE
           /\ ret.rec.priority_score = Num(100)

\* a charging vehicle below a floor that lies above the threshold
C1_Witness ==
    /\ IsCalc
    /\ ret.status.is_charging
    /\ ret.status.battery_percent < minimum_charge
    /\ ret.status.battery_percent >= charge_threshold
    /\ ret.rec.action = CHARGE

\* C2: with 0 <= minimum_charge <= charge_threshold <= 100, a reading at or
\* above charge_threshold gets NO_CHARGE with priority_score 0, charging or not.
C2_AtOrAboveThreshold ==
    (IsCalc /\ ValidConfig /\ ret.status.battery_percent >= charge_threshold)
        => /\ ret.rec.raised = "none"
           /\ ret.rec.action = NO_CHARGE
           /\ ret.rec.priority_score = Num(0)

\* a charging vehicle exactly at the threshold
C2_Witness ==
    /\ IsCalc
    /\ ValidConfig
    /\ ret.status.is_charging
    /\ ret.status.battery_percent = charge_threshold
    /\ ret.rec.action = NO_CHARGE

\* C3: a charging vehicle with minimum_charge <= battery_percent <
\* charge_threshold gets CONTINUE_CHARGING with priority_score exactly 50,
\* whatever its distance to the threshold.
C3_ContinueCharging ==
    (/\ IsCalc
     /\ ret.status.is_charging
     /\ minimum_charge <= ret.status.battery_percent
     /\ ret.status.battery_percent < charge_threshold)
        => /\ ret.rec.raised = "none"
           /\ ret.rec.action = CONTINUE_CHARGING
           /\ ret.rec.priority_score = Num(50)

\* a charging vehicle whose gap to the threshold is not 50
C3_Witness ==
    /\ IsCalc
    /\ ret.status.is_charging
    /\ ret.status.battery_percent = 50
    /\ charge_threshold = 80
    /\ minimum_charge = 20
    /\ ret.rec.action = CONTINUE_CHARGING

\* an idle reading strictly between the floor and the threshold
Between(status) ==
    /\ ~status.is_charging
    /\ minimum_charge < status.battery_percent
    /\ status.battery_percent < charge_threshold

\* CHARGE with a score strictly between 0 and 100
ChargeInside(rec) ==
    /\ rec.action = CHARGE
    /\ Less(Num(0), rec.priority_score)
    /\ Less(rec.priority_score, Num(100))

\* the two recommendations of one bundle, computed under one configuration
RampHolds ==
    LET d == ret.recommendations
    IN  /\ d.raised = "none"
        /\ Between(tesla_status) => ChargeInside(d.tesla)
        /\ Between(ioniq_status) => ChargeInside(d.ioniq)
        /\ (/\ Between(tesla_status)
            /\ Between(ioniq_status)
            /\ tesla_status.battery_percent > ioniq_status.battery_percent)
               => Less(d.tesla.priority_score, d.ioniq.priority_score)
        /\ (/\ Between(tesla_status)
            /\ Between(ioniq_status)
            /\ ioniq_status.battery_percent > tesla_status.battery_percent)
               => Less(d.ioniq.priority_score, d.tesla.priority_score)

\* C4 as stated: every idle reading strictly between minimum_charge and
\* charge_threshold gets CHARGE with 0 < priority_score < 100, and of two
\* such readings the fuller one has the strictly lower score.
C4_Original ==
    (/\ IsDual
     /\ ioniq_status # None
     /\ Between(tesla_status) \/ Between(ioniq_status))
        => RampHolds

\* C4 (amended): under a configuration with minimum_charge >= 0, every idle
\* reading strictly between minimum_charge and charge_threshold gets CHARGE
\* with 0 < priority_score < 100, and of two such readings the fuller one
\* has the strictly lower score.
C4_Ramp ==
    (/\ IsDual
     /\ ioniq_status # None
     /\ minimum_charge >= 0
     /\ Between(tesla_status) \/ Between(ioniq_status))
        => RampHolds

\* two idle vehicles on the ramp with different batteries
C4_Witness ==
    /\ IsDual
    /\ ioniq_status # None
    /\ minimum_charge >= 0
    /\ Between(tesla_status)
    /\ Between(ioniq_status)
    /\ tesla_status.battery_percent > ioniq_status.battery_percent
    /\ Less(ret.recommendations.tesla.priority_score,
            ret.recommendations.ioniq.priority_score)

\* score = min(gap / charge_threshold * 100, 100), stated on the fraction
\* without dividing: score * charge_threshold = gap * 100 below the cap
IsRampScore(score, battery) ==
    LET gap == charge_threshold - battery
        capped == IF charge_threshold > 0
                  THEN gap >= charge_threshold
                  ELSE gap <= charge_threshold
    IN  IF capped
        THEN score = Num(100)
        ELSE /\ score[2] > 0
             /\ score[1] * charge_threshold = gap * 100 * score[2]

\* C5: an idle reading with minimum_charge <= battery_percent <
\* charge_threshold (battery_percent = minimum_charge included) has
\* priority_score min((charge_threshold - battery_percent) / charge_threshold
\* * 100, 100), the denominator being charge_threshold; where that quotient
\* does not exist (charge_threshold = 0) its evaluation raises.
C5_RampFormula ==
    (/\ IsCalc
     /\ ~ret.status.is_charging
     /\ minimum_charge <= ret.status.battery_percent
     /\ ret.status.battery_percent < charge_threshold)
        => IF charge_threshold = 0
           THEN ret.rec.raised = "ZeroDivisionError"
           ELSE /\ ret.rec.raised = "none"
                /\ ret.rec.action = CHARGE
                /\ IsRampScore(ret.rec.priority_score, ret.status.battery_percent)
                /\ (charge_threshold = 80 /\ ret.status.battery_percent = 60)
                      => ret.rec.priority_score = Num(25)
                /\ (charge_threshold = 80 /\ ret.status.battery_percent = 30)
                      => ret.rec.priority_score = <<125, 2>>

\* battery 30 under threshold 80: 62.5; and the boundary battery = minimum
C5_Witness ==
    /\ IsCalc
    /\ ~ret.status.is_charging
    /\ charge_threshold = 80
    /\ minimum_charge = ret.status.battery_percent
    /\ ret.status.battery_percent = 20
    /\ ret.rec.priority_score = Num(75)

\* the recommendations compare_vehicles works from
RecA == calculate_recommendation(ret.vehicle_a)
RecB == calculate_recommendation(ret.vehicle_b)
Needs(rec) == rec.action = CHARGE \/ rec.action = CONTINUE_CHARGING
BothReturned == RecA.raised = "none" /\ RecB.raised = "none"

\* C6: when both vehicles need charging and their scores differ, the one
\* with the strictly higher priority_score is returned, in either position.
C6_HigherScoreWins ==
    (IsCompare /\ BothReturned /\ Needs(RecA) /\ Needs(RecB))
        => /\ Less(RecB.priority_score, RecA.priority_score)
                => ret.result = Return(ret.vehicle_a.vehicle_name)
           /\ Less(RecA.priority_score, RecB.priority_score)
                => ret.result = Return(ret.vehicle_b.vehicle_name)

\* spec scenario 6 with the arguments swapped: the first argument wins
C6_Witness ==
    /\ IsCompare
    /\ charge_threshold = 80
    /\ minimum_charge = 20
    /\ ret.vehicle_a = VehicleStatus(IoniqName, 30, FALSE)
    /\ ret.vehicle_b = VehicleStatus(TeslaName, 60, FALSE)
    /\ ret.result = Return(IoniqName)

\* C7: "NONE" when neither vehicle needs charging; the one vehicle that
\* needs it when exactly one does, CONTINUE_CHARGING counting as a need.
C7_NoneOrOnlyOne ==
    (IsCompare /\ BothReturned)
        => /\ (~Needs(RecA) /\ ~Needs(RecB)) => ret.result = Return("NONE")
           /\ (Needs(RecA) /\ ~Needs(RecB))
                => ret.result = Return(ret.vehicle_a.vehicle_name)
           /\ (Needs(RecB) /\ ~Needs(RecA))
                => ret.result = Return(ret.vehicle_b.vehicle_name)

\* only the second vehicle needs charge, and it is CONTINUE_CHARGING
C7_Witness ==
    /\ IsCompare
    /\ BothReturned
    /\ RecA.action = NO_CHARGE
    /\ RecB.action = CONTINUE_CHARGING
    /\ ret.result = Return(ret.vehicle_b.vehicle_name)

SameScore ==
    /\ ~Less(RecA.priority_score, RecB.priority_score)
    /\ ~Less(RecB.priority_score, RecA.priority_score)

\* C8: when both need charging with exactly equal scores, the vehicle with
\* the strictly lower battery_percent is returned, and the second argument
\* when the batteries are equal too.
C8_TieBreak ==
    (IsCompare /\ BothReturned /\ Needs(RecA) /\ Needs(RecB) /\ SameScore)
        => /\ ret.vehicle_a.battery_percent < ret.vehicle_b.battery_percent
                => ret.result = Return(ret.vehicle_a.vehicle_name)
           /\ ret.vehicle_b.battery_percent < ret.vehicle_a.battery_percent
                => ret.result = Return(ret.vehicle_b.vehicle_name)
           /\ ret.vehicle_a.battery_percent = ret.vehicle_b.battery_percent
                => ret.result = Return(ret.vehicle_b.vehicle_name)

\* an idle vehicle scoring 50 against a fuller one that is charging
C8_Witness ==
    /\ IsCompare
    /\ BothReturned
    /\ RecA.action = CHARGE
    /\ RecB.action = CONTINUE_CHARGING
    /\ SameScore
    /\ ret.vehicle_a.battery_percent < ret.vehicle_b.battery_percent
    /\ ret.result = Return(ret.vehicle_a.vehicle_name)

ExactTie ==
    /\ BothReturned
    /\ Needs(RecA)
    /\ Needs(RecB)
    /\ SameScore
    /\ ret.vehicle_a.battery_percent = ret.vehicle_b.battery_percent

\* C9: for two vehicles with distinct names, compare_vehicles(a, b) and
\* compare_vehicles(b, a) have the same outcome, except in the exact tie
\* (both need charging, equal score, equal battery), where each call
\* returns its own second argument.
C9_Symmetric ==
    (IsCompare /\ ret.vehicle_a.vehicle_name # ret.vehicle_b.vehicle_name)
        => LET swapped == compare_vehicles(ret.vehicle_b, ret.vehicle_a)
           IN  IF ExactTie
               THEN /\ ret.result = Return(ret.vehicle_b.vehicle_name)
                    /\ swapped = Return(ret.vehicle_a.vehicle_name)
               ELSE ret.result = swapped

\* the exact tie, called with the Ioniq first: the Tesla is returned
C9_Witness ==
    /\ IsCompare
    /\ ExactTie
    /\ ret.vehicle_a.vehicle_name = IoniqName
    /\ ret.result = Return(TeslaName)
    /\ compare_vehicles(ret.vehicle_b, ret.vehicle_a) = Return(IoniqName)

\* C10: with no second vehicle, 'ioniq' is None and 'priority_vehicle' is
\* the first vehicle's name exactly when its action is CHARGE, and "NONE"
\* for CONTINUE_CHARGING and NO_CHARGE; with a second vehicle that needs no
\* charge, a CONTINUE_CHARGING first vehicle is the priority vehicle.
C10_SingleVehicle ==
    (IsDual /\ ret.recommendations.raised = "none")
        => LET d == ret.recommendations
           IN  IF ioniq_status = None
               THEN /\ d.ioniq = None
                    /\ d.priority_vehicle = tesla_status.vehicle_name
                          <=> d.tesla.action = CHARGE
                    /\ d.tesla.action \in {CONTINUE_CHARGING, NO_CHARGE}
                          => d.priority_vehicle = "NONE"
               ELSE (d.tesla.action = CONTINUE_CHARGING /\ d.ioniq.action = NO_CHARGE)
                          => d.priority_vehicle = tesla_status.vehicle_name

\* a lone vehicle that continues charging has no priority
C10_Witness ==
    /\ IsDual
    /\ ioniq_status = None
    /\ ret.recommendations.raised = "none"
    /\ ret.recommendations.tesla.action = CONTINUE_CHARGING
    /\ ret.recommendations.priority_vehicle = "NONE"

\* action and priority_score of a recommendation
Decision(rec) == <<rec.action, rec.priority_score>>

\* C11: with both vehicles present the bundle's 'tesla' and 'ioniq' carry
\* the action and priority_score calculate_recommendation gives each
\* reading alone, and 'priority_vehicle' is what
\* compare_vehicles(tesla_status, ioniq_status) returns.
C11_BundleDelegates ==
    (IsDual /\ ioniq_status # None)
        => LET d == ret.recommendations
               alone_t == calculate_recommendation(tesla_status)
               alone_i == calculate_recommendation(ioniq_status)
               cmp == compare_vehicles(tesla_status, ioniq_status)
           IN  IF alone_t.raised # "none" \/ alone_i.raised # "none"
               THEN d.raised # "none" /\ cmp.raised = d.raised
               ELSE /\ d.raised = "none"
                    /\ Decision(d.tesla) = Decision(alone_t)
                    /\ Decision(d.ioniq) = Decision(alone_i)
                    /\ cmp = Return(d.priority_vehicle)

\* the exact tie, where the order of the two arguments decides: the Ioniq
C11_Witness ==
    /\ IsDual
    /\ ioniq_status # None
    /\ ret.recommendations.raised = "none"
    /\ Decision(ret.recommendations.tesla) = <<CONTINUE_CHARGING, Num(50)>>
    /\ Decision(ret.recommendations.ioniq) = <<CONTINUE_CHARGING, Num(50)>>
    /\ tesla_status.battery_percent = ioniq_status.battery_percent
    /\ ret.recommendations.priority_vehicle = IoniqName

\* a reading rule 4 decides: idle, not critical, below the threshold
InRule4(status) ==
    /\ ~status.is_charging
    /\ ~(status.battery_percent < minimum_charge)
    /\ status.battery_percent < charge_threshold

\* rule 4 never scores 100, and only the critical floor does
Reserves100 ==
    /\ ret.rec.raised = "none"
    /\ InRule4(ret.status) => ret.rec.priority_score # Num(100)
    /\ ret.rec.priority_score = Num(100)
          => ret.status.battery_percent < minimum_charge

\* C12 as stated: with 0 <= minimum_charge <= charge_threshold <= 100 and
\* battery_percent in [0, 100], rule 4 never gives priority_score 100, and
\* a score of exactly 100 comes only from the critical floor.
C12_Original ==
    (/\ IsCalc
     /\ ValidConfig
     /\ 0 <= ret.status.battery_percent
     /\ ret.status.battery_percent <= 100)
        => Reserves100

\* C12 (amended): with 0 <= minimum_charge <= charge_threshold <= 100 and
\* battery_percent in (0, 100], battery_percent 0 excluded, rule 4 never
\* gives priority_score 100, and a score of exactly 100 comes only from
\* the critical floor.
C12_Reserves100 ==
    (/\ IsCalc
     /\ ValidConfig
     /\ 0 < ret.status.battery_percent
     /\ ret.status.battery_percent <= 100)
        => Reserves100

\* rule 4 at the floor itself, scoring below 100
C12_Witness ==
    /\ IsCalc
    /\ ValidConfig
    /\ InRule4(ret.status)
    /\ ret.status.battery_percent = minimum_charge
    /\ ret.status.battery_percent > 0
    /\ ret.rec.action = CHARGE
    /\ Less(ret.rec.priority_score, Num(100))

\* in the last comparison, x continues a charge and y is idle, not
\* critical and below the threshold
ChargingAgainstIdle(x, rec_x, y, rec_y) ==
    /\ rec_x.raised = "none"
    /\ rec_y.raised = "none"
    /\ rec_x.action = CONTINUE_CHARGING
    /\ InRule4(y)

\* the continued charge scores at least as much, and the idle vehicle is
\* not returned on the strength of its score
ChargingNotOutscored(x, rec_x, y, rec_y) ==
    /\ ~Less(rec_x.priority_score, rec_y.priority_score)
    /\ ret.result = Return(y.vehicle_name)
          => ~Less(rec_x.priority_score, rec_y.priority_score)
             /\ ~Less(rec_y.priority_score, rec_x.priority_score)

\* C13 as stated: a CONTINUE_CHARGING vehicle (score 50) scores at least as
\* much as any idle, non-critical vehicle below the threshold, so
\* compare_vehicles never prefers the idle one by score.
C13_Original ==
    IsCompare
        => /\ ChargingAgainstIdle(ret.vehicle_a, RecA, ret.vehicle_b, RecB)
                => ChargingNotOutscored(ret.vehicle_a, RecA, ret.vehicle_b, RecB)
           /\ ChargingAgainstIdle(ret.vehicle_b, RecB, ret.vehicle_a, RecA)
                => ChargingNotOutscored(ret.vehicle_b, RecB, ret.vehicle_a, RecA)

\* the idle vehicle's battery is at least half the threshold
AtLeastHalf(status) == 2 * status.battery_percent >= charge_threshold

\* C13 (amended): a CONTINUE_CHARGING vehicle (score 50) scores at least as
\* much as any idle, non-critical vehicle below the threshold whose
\* battery_percent is at least half of charge_threshold, and
\* compare_vehicles never prefers such an idle vehicle by score; an idle
\* vehicle below half the threshold scores above 50 and is preferred.
C13_ChargingVersusIdle ==
    IsCompare
        => /\ (/\ ChargingAgainstIdle(ret.vehicle_a, RecA, ret.vehicle_b, RecB)
               /\ AtLeastHalf(ret.vehicle_b))
                => ChargingNotOutscored(ret.vehicle_a, RecA, ret.vehicle_b, RecB)
           /\ (/\ ChargingAgainstIdle(ret.vehicle_b, RecB, ret.vehicle_a, RecA)
               /\ AtLeastHalf(ret.vehicle_a))
                => ChargingNotOutscored(ret.vehicle_b, RecB, ret.vehicle_a, RecA)
           /\ (/\ ChargingAgainstIdle(ret.vehicle_a, RecA, ret.vehicle_b, RecB)
               /\ ~AtLeastHalf(ret.vehicle_b)
               /\ charge_threshold > 0)
                => /\ Less(Num(50), RecB.priority_score)
                   /\ ret.result = Return(ret.vehicle_b.vehicle_name)
           /\ (/\ ChargingAgainstIdle(ret.vehicle_b, RecB, ret.vehicle_a, RecA)
               /\ ~AtLeastHalf(ret.vehicle_a)
               /\ charge_threshold > 0)
                => /\ Less(Num(50), RecA.priority_score)
                   /\ ret.result = Return(ret.vehicle_a.vehicle_name)

\* a charging vehicle at 50 against an idle one at 60, threshold 80
C13_Witness ==
    /\ IsCompare
    /\ charge_threshold = 80
    /\ ChargingAgainstIdle(ret.vehicle_a, RecA, ret.vehicle_b, RecB)
    /\ ret.vehicle_a.battery_percent = 50
    /\ ret.vehicle_b.battery_percent = 60
    /\ RecB.priority_score = Num(25)
    /\ ret.result = Return(ret.vehicle_a.vehicle_name)

\* exactly one of the two is critical and the other continues a charge
CriticalAgainstCharging(x, y, rec_y) ==
    /\ x.battery_percent < minimum_charge
    /\ ~(y.battery_percent < minimum_charge)
    /\ rec_y.raised = "none"
    /\ rec_y.action = CONTINUE_CHARGING

\* C14: when exactly one vehicle is critical (battery_percent <
\* minimum_charge) and the other's recommendation is CONTINUE_CHARGING, the
\* critical vehicle is returned, in either argument order.
C14_CriticalFirst ==
    IsCompare
        => /\ CriticalAgainstCharging(ret.vehicle_a, ret.vehicle_b, RecB)
                => ret.result = Return(ret.vehicle_a.vehicle_name)
           /\ CriticalAgainstCharging(ret.vehicle_b, ret.vehicle_a, RecA)
                => ret.result = Return(ret.vehicle_b.vehicle_name)

\* the critical vehicle is the first argument and is itself charging
C14_Witness ==
    /\ IsCompare
    /\ CriticalAgainstCharging(ret.vehicle_a, ret.vehicle_b, RecB)
    /\ ret.vehicle_a.is_charging
    /\ ret.result = Return(ret.vehicle_a.vehicle_name)

\* C15: with battery_percent in [0, 100] and 0 <= minimum_charge <=
\* charge_threshold <= 100, whatever update_threshold calls came before,
\* the call returns a Recommendation with 0 <= priority_score <= 100.
C15_ScoreRange ==
    (/\ IsCalc
     /\ ValidConfig
     /\ 0 <= ret.status.battery_percent
     /\ ret.status.battery_percent <= 100)
        => /\ ret.rec.raised = "none"
           /\ ~Less(ret.rec.priority_score, Num(0))
           /\ ~Less(Num(100), ret.rec.priority_score)

\* rule 4 at its upper end: battery 0 under minimum 0 scores exactly 100
C15_Witness ==
    /\ IsCalc
    /\ ValidConfig
    /\ InRule4(ret.status)
    /\ ret.status.battery_percent = 0
    /\ ret.rec.priority_score = Num(100)

\* C16: with 0 <= minimum_charge <= charge_threshold <= 100, a reading
\* whose battery_percent is negative or above 100 gets a Recommendation,
\* no exception; the rules see the raw number (a negative battery is below
\* the floor, hence CHARGE with 100; a battery above 100 is above the
\* threshold, hence NO_CHARGE with 0) and the returned battery_percent is
\* the raw input.
C16_OutOfRangeBattery ==
    (/\ IsCalc
     /\ ValidConfig
     /\ ret.status.battery_percent < 0 \/ ret.status.battery_percent > 100)
        => /\ ret.rec.raised = "none"
           /\ ret.rec.battery_percent = ret.status.battery_percent
           /\ ret.status.battery_percent < 0
                => Decision(ret.rec) = <<CHARGE, Num(100)>>
           /\ ret.status.battery_percent > 100
                => Decision(ret.rec) = <<NO_CHARGE, Num(0)>>

\* a negative battery under floor 0: clamping to 0 would not be critical
C16_Witness ==
    /\ IsCalc
    /\ ValidConfig
    /\ minimum_charge = 0
    /\ ret.status.battery_percent = -10
    /\ ~ret.status.is_charging
    /\ ret.rec.battery_percent = -10
    /\ ret.rec.action = CHARGE

\* C17: under every pair (minimum_charge, charge_threshold) and for every
\* reading, calculate_recommendation returns a Recommendation and raises
\* no error.
C17_NeverRaises ==
    IsCalc => ret.rec.raised = "none"

\* C18: with charge_threshold = 0, a reading with battery_percent >= 0 is
\* decided by rule 1, 2 or 3: the call returns CHARGE/100 when critical and
\* NO_CHARGE/0 otherwise, and the division of rule 4 is not evaluated.
C18_ZeroThreshold ==
    (IsCalc /\ charge_threshold = 0 /\ ret.status.battery_percent >= 0)
        => /\ ret.rec.raised = "none"
           /\ IF ret.status.battery_percent < minimum_charge
              THEN Decision(ret.rec) = <<CHARGE, Num(100)>>
              ELSE Decision(ret.rec) = <<NO_CHARGE, Num(0)>>

\* threshold 0 on an engine with the default floor 20, idle battery 0
C18_Witness ==
    /\ IsCalc
    /\ charge_threshold = 0
    /\ minimum_charge = 20
    /\ ret.status.battery_percent = 0
    /\ ~ret.status.is_charging
    /\ ret.rec.raised = "none"
    /\ ret.rec.action = CHARGE

IsDecision(call) == call.op \in DecisionOps

\* what a call of calculate_recommendation gave: its decision or its exception
Outcome(rec) == IF rec.raised # "none" THEN <<rec.raised>> ELSE Decision(rec)

\* what a call of calculate_dual_recommendations gave
BundleOutcome(d) ==
    IF d.raised # "none" THEN <<d.raised>>
    ELSE <<Decision(d.tesla),
           IF d.ioniq = None THEN <<>> ELSE Decision(d.ioniq),
           d.priority_vehicle>>

SameReading(s, t) ==
    /\ s.battery_percent = t.battery_percent
    /\ s.is_charging = t.is_charging

\* two calls of the same method with the same inputs gave the same answer
SameMethodAgrees(earlier, later) ==
    CASE later.op = "calculate_recommendation" ->
            SameReading(earlier.status, later.status)
                => Outcome(earlier.rec) = Outcome(later.rec)
      [] later.op = "compare_vehicles" ->
            (/\ earlier.vehicle_a = later.vehicle_a
             /\ earlier.vehicle_b = later.vehicle_b)
                => earlier.result = later.result
      [] later.op = "calculate_dual_recommendations" ->
            BundleOutcome(earlier.recommendations) = BundleOutcome(later.recommendations)

\* a bundle agrees with a single call made for one of its readings, and
\* with a comparison of its two readings in the bundle's order
BundleAgrees(single, bundle) ==
    LET d == bundle.recommendations
    IN  d.raised = "none" =>
        CASE single.op = "calculate_recommendation" ->
                /\ SameReading(single.status, tesla_status)
                      => Outcome(single.rec) = Decision(d.tesla)
                /\ (ioniq_status # None /\ SameReading(single.status, ioniq_status))
                      => Outcome(single.rec) = Decision(d.ioniq)
          [] single.op = "compare_vehicles" ->
                single.vehicle_a = tesla_status
                      => single.result = Return(d.priority_vehicle)

\* the noted earlier call and the last call agree when made under the
\* same threshold (the readings and minimum_charge are those of the run)
CallsAgree ==
    (/\ IsDecision(prev)
     /\ IsDecision(ret)
     /\ prev.threshold = charge_threshold)
        => IF prev.op = ret.op THEN SameMethodAgrees(prev, ret)
           ELSE IF ret.op = "calculate_dual_recommendations" THEN BundleAgrees(prev, ret)
           ELSE IF prev.op = "calculate_dual_recommendations" THEN BundleAgrees(ret, prev)
           ELSE TRUE

C20_CurrentThreshold ==
    IsCalc
        => LET t == accepted.value
               b == ret.status.battery_percent
           IN  IF ret.rec.raised # "none"
               THEN t = 0
               ELSE /\ ret.rec.threshold = t
                    /\ ~(b < minimum_charge)
                          => (ret.rec.action = NO_CHARGE <=> b >= t)
                    /\ (~(b < minimum_charge) /\ b < t)
                          => ret.rec.action =
                                IF ret.status.is_charging THEN CONTINUE_CHARGING ELSE CHARGE

\* a call after an accepted update to 40 on an engine with floor 20
C20_Witness ==
    /\ IsCalc
    /\ accepted = [value |-> 40, by |-> "update_threshold"]
    /\ minimum_charge = 20
    /\ ret.status.battery_percent = 50
    /\ ret.rec.raised = "none"
    /\ ret.rec.threshold = 40
    /\ ret.rec.action = NO_CHARGE

IsUpdate == ret.op = "update_threshold"
IsPut == ret.op = "PUT /api/settings/threshold"

\* C21: in every step that is a call update_threshold(v): for v < 0 or
\* v > 100 the call raises ValueError and charge_threshold is what it was;
\* for 0 <= v <= 100 it returns and charge_threshold is v; minimum_charge is
\* what it was either way.  In every step that is a request to the route,
\* the answer is 400 exactly when the engine call raised ValueError, a
\* request the engine accepted is answered 200 with the rounded value set,
\* and a request the request model refused never reaches the engine.
C21_UpdateThreshold ==
    [][ /\ IsUpdate'
            => LET v == ret'.new_threshold
               IN  /\ minimum_charge' = minimum_charge
                   /\ (v < 0 \/ v > 100)
                         => /\ ret'.raised = "ValueError"
                            /\ charge_threshold' = charge_threshold
                   /\ (0 <= v /\ v <= 100)
                         => /\ ret'.raised = "none"
                            /\ charge_threshold' = v
        /\ IsPut'
            => /\ minimum_charge' = minimum_charge
               /\ IF ret'.called
                  THEN /\ ret'.status_code = 400 <=> ret'.raised = "ValueError"
                       /\ ret'.status_code = 200
                             => charge_threshold' = ret'.new_threshold
                       /\ ret'.status_code # 200
                             => charge_threshold' = charge_threshold
                  ELSE /\ ret'.status_code = 422
                       /\ charge_threshold' = charge_threshold
      ]_vars

\* the end of the range is accepted: update_threshold(100) has set 100
C21_Witness ==
    /\ IsUpdate
    /\ ret.new_threshold = 100
    /\ ret.raised = "none"
    /\ charge_threshold = 100
    /\ accepted = [value |-> 100, by |-> "update_threshold"]

\* C22 as the spec states it: from the default engine every reachable state
\* has 0 <= minimum_charge <= charge_threshold <= 100.
C22_Original == ValidConfig

\* C22: from the default engine (80, 20), in every reachable state
\* minimum_charge is still 20 and 0 <= charge_threshold <= 100, and
\* charge_threshold is the value last accepted; minimum_charge <=
\* charge_threshold holds exactly as long as that value is 20 or more.
C22_RangeOnly ==
    /\ minimum_charge = DefaultMinimumCharge
    /\ 0 <= charge_threshold
    /\ charge_threshold <= 100
    /\ charge_threshold = accepted.value
    /\ minimum_charge <= charge_threshold <=> accepted.value >= DefaultMinimumCharge

\* an accepted update_threshold(0) has put the threshold below the floor
C22_Witness ==
    /\ IsUpdate
    /\ ret.new_threshold = 0
    /\ ret.raised = "none"
    /\ charge_threshold = 0
    /\ minimum_charge = 20

\* C28: compare_vehicles, when it returns, returns vehicle_a's name,
\* vehicle_b's name or "NONE"; a vehicle it names has the action CHARGE or
\* CONTINUE_CHARGING in its own recommendation; it returns "NONE" only when
\* both recommendations are NO_CHARGE.  The same holds of 'priority_vehicle'
\* in the bundle of two vehicles.
C28_NamedVehicleNeedsCharge ==
    /\ (IsCompare /\ ret.result.raised = "none")
        => LET name == ret.result.name
           IN  /\ name \in {ret.vehicle_a.vehicle_name, ret.vehicle_b.vehicle_name, "NONE"}
               /\ name = ret.vehicle_a.vehicle_name => Needs(RecA)
               /\ name = ret.vehicle_b.vehicle_name => Needs(RecB)
               /\ name = "NONE" => RecA.action = NO_CHARGE /\ RecB.action = NO_CHARGE
    /\ (IsDual /\ ioniq_status # None /\ ret.recommendations.raised = "none")
        => LET d == ret.recommendations
           IN  /\ d.priority_vehicle \in {TeslaName, IoniqName, "NONE"}
               /\ d.priority_vehicle = TeslaName => Needs(d.tesla)
               /\ d.priority_vehicle = IoniqName => Needs(d.ioniq)
               /\ d.priority_vehicle = "NONE"
                     => d.tesla.action = NO_CHARGE /\ d.ioniq.action = NO_CHARGE

\* both vehicles are at or above the threshold and idle: nobody is named
C28_Witness ==
    /\ IsCompare
    /\ ret.result = Return("NONE")
    /\ RecA.action = NO_CHARGE
    /\ RecB.action = NO_CHARGE
    /\ ret.vehicle_a.battery_percent = 90
    /\ ret.vehicle_b.battery_percent = 80

BroadcastDone == bc.pc = "done"

\* C25: a call of broadcast that nothing interleaves with raises nothing;
\* send_json was called once, in list order, on every connection that was
\* listed and CONNECTED, whatever happened to the sends before it; every
\* connection that was not CONNECTED or whose send failed is gone from
\* active_connections at the return, and active_connections is exactly the
\* connections whose send succeeded, in their order.
C25_Broadcast ==
    BroadcastDone
        => LET WasConnected(c) == client_state[c] = CONNECTED
               Succeeded(c) == c \in Range(bc.sent)
           IN  /\ bc.raised = "none"
               /\ bc.attempted = SelectSeq(bc.at_call, WasConnected)
               /\ Range(bc.sent) \cup Range(bc.disconnected) = Range(bc.at_call)
               /\ Range(bc.sent) \cap Range(bc.disconnected) = {}
               /\ active_connections = SelectSeq(bc.at_call, Succeeded)
               /\ Range(active_connections) = Range(bc.sent)

\* of three connections the first is not CONNECTED, the send to the second
\* fails, and the third still gets the message and alone stays listed
C25_Witness ==
    /\ BroadcastDone
    /\ bc.at_call = <<1, 2, 3>>
    /\ client_state[1] = DISCONNECTED
    /\ bc.attempted = <<2, 3>>
    /\ bc.sent = <<3>>
    /\ active_connections = <<3>>

\* the number of times send_json was called on c
Sends(c) == Cardinality({k \in DOMAIN bc.attempted : bc.attempted[k] = c})

\* C30: when broadcast returns and other tasks have, while it was
\* suspended, connected or disconnected only connections other than the one
\* it was sending to, send_json was called exactly once on every connection
\* that was listed and CONNECTED from the call to the return.
C30_ExactlyOnce ==
    (BroadcastDone /\ ~bc.own_removed) => \A c \in bc.stayed : Sends(c) = 1

InRefresh == {t \in Tasks : tasks[t].pc = "post"}
Waited == {t \in Tasks : tasks[t].waited}

\* C23: at most one task is inside _refresh_access_token at any time; and
\* if the first refresh request was answered with a token that is valid
\* (200, and still more than the 60 second buffer to run), that request is
\* the only one ever made, and no task that waited for the lock raises:
\* each is still waiting or has returned.
C23_SingleRefresh ==
    /\ Cardinality(InRefresh) <= 1
    /\ (/\ refresh_log # <<>>
        /\ refresh_log[1].answered
        /\ refresh_log[1].response.status_code = 200
        /\ refresh_log[1].valid_for > 0)
          => /\ Len(refresh_log) = 1
             /\ \A t \in Waited : tasks[t].pc \in {"acquire", "returned"}

\* three tasks met an expired token: one refreshed it, the two that waited
\* for the lock have returned, and one request was made
C23_Witness ==
    /\ \A t \in Tasks : tasks[t].pc = "returned"
    /\ Cardinality(Waited) = 2
    /\ Len(refresh_log) = 1
    /\ refresh_log[1].response.status_code = 200
    /\ is_token_valid
    /\ lock_queue = <<>>

\* a step that is a call of get_vehicle_status
StatusCall == now' = now /\ status_ret'.op = "get_vehicle_status"

C29_Freshness ==
    [][ (StatusCall /\ ~mock_mode)
          => LET r == status_ret'
             IN  /\ (r.result.raised = "none" /\ ~r.contacted)
                       => now - r.result.last_updated < cache_duration_seconds
                 /\ last_fetch_time' # last_fetch_time
                       => r.fetched /\ r.answer = 200
      ]_vars

\* the steps of the cycle so far are the first steps of the try block
InOrder == sched.steps = SubSeq(CycleSteps, 1, Len(sched.steps))
LastStep == sched.steps[Len(sched.steps)]

\* C24: no exception leaves update_vehicle_data.  A cycle that has ended
\* without an exception ran every step and never called save_error; a
\* cycle in which a step raised ran the steps up to that one and no later
\* one, called save_error once and returned.  When get_vehicle_status
\* raised, no reading and no recommendation was saved and nothing was
\* broadcast.
C24_CycleContained ==
    sched.n > 0
        => /\ sched.propagated = "none"
           /\ InOrder
           /\ sched.reading_saved => Len(sched.steps) >= 2
           /\ sched.recommendation_saved => Len(sched.steps) >= 4
           /\ sched.broadcast => Len(sched.steps) = 5
           /\ sched.done
                 => IF sched.exc = "none"
                    THEN /\ sched.save_error_calls = 0
                         /\ Len(sched.steps) =
                               IF sched.websocket_broadcast THEN 5 ELSE 4
                    ELSE /\ sched.save_error_calls = 1
                         /\ LastStep \in {"get_vehicle_status",
                                          "calculate_recommendation",
                                          "websocket_broadcast"}
                         /\ LastStep = "get_vehicle_status"
                               => /\ sched.exc = "TeslaAPIError"
                                  /\ ~sched.reading_saved
                                  /\ ~sched.recommendation_saved
                                  /\ ~sched.broadcast

\* the cycle after one in which get_vehicle_status failed has run through
C24_Witness ==
    /\ sched.n = 2
    /\ sched.before = "failed"
    /\ sched.done
    /\ sched.exc = "none"
    /\ sched.reading_saved /\ sched.recommendation_saved /\ sched.broadcast
    /\ db_ret.op = "save_error"
    /\ ~db_ret.skipped

IsSave == db_ret.op \in {"save_battery_reading", "save_recommendation"}
IsSaveError == db_ret.op = "save_error"

\* what C27 says of save_battery_reading and save_recommendation: they
\* raise nothing; a failure creates a save_error task exactly when no error
\* save is in progress; and the cycle goes on after save_battery_reading
\* whether the reading was persisted or not, so that a cycle without an
\* exception has broadcast.
SavesContained ==
    /\ IsSave
          => /\ db_ret.raised = "none"
             /\ db_ret.task_created <=> (~db_ret.persisted /\ ~db_ret.flag_seen)
    /\ (sched.n > 0 /\ ~sched.done /\ LastStep = "save_battery_reading")
          => sched.pc = "calculate_recommendation"
    /\ (sched.n > 0 /\ sched.done /\ sched.exc = "none" /\ sched.websocket_broadcast)
          => sched.broadcast

\* C27 as the spec states it: the saves are contained, and every save_error
\* raises nothing and has _in_error_handler false when it ends.
C27_Original ==
    /\ SavesContained
    /\ IsSaveError => db_ret.raised = "none" /\ db_ret.flag_after = FALSE

\* C27: the saves are contained, and every save_error raises nothing; one
\* that found no error save in progress has _in_error_handler false when it
\* ends, one that found an error save in progress returns at once and
\* leaves the flag set.
C27_SavesContained ==
    /\ SavesContained
    /\ IsSaveError
          => /\ db_ret.raised = "none"
             /\ ~db_ret.skipped => db_ret.flag_after = FALSE
             /\ db_ret.skipped => db_ret.flag_after = TRUE /\ in_error_handler

\* the reading could not be saved, the cycle still broadcast, and the
\* detached save_error has ended with the flag reset
C27_Witness ==
    /\ sched.done
    /\ sched.exc = "none"
    /\ ~sched.reading_saved
    /\ sched.recommendation_saved
    /\ sched.broadcast
    /\ IsSaveError
    /\ ~db_ret.skipped
    /\ ~in_error_handler
    /\ error_tasks = [created |-> 0, saving |-> 0]

====
